---- MODULE Spec2Model ----
(***************************************************************************)
(* Universal Android Debloater: the backup store (core/save.rs), the       *)
(* package-state command builder (apply_pkg_state_commands) and the        *)
(* settings view's message handler (gui/views/settings.rs).                *)
(*                                                                         *)
(* Reading of the builder's parameters used throughout: phone_pkg is the   *)
(* package as it is on the phone (the CURRENT state), backup_pkg is the    *)
(* package as the backup records it (the DESIRED state).                   *)
(***************************************************************************)
EXTENDS Integers, Sequences, FiniteSets, TLC

(* ------------------------------------------------------------------ *)
(* Bounds of the model                                                 *)
(* ------------------------------------------------------------------ *)
\* android_sdk ranges over 18..MaxSdk: one level below KitKat, every level
\* the builder names (19, 20, 21, 22, 23) and upwards.
MaxSdk == 23
\* the phone has 0..MaxUsers users
MaxUsers == 2
\* the clock (minute granularity of the backup file name) runs 0..MaxMinute
MaxMinute == 1

SdkLevels == 18..MaxSdk

\* core::sync::PackageState
PackageStates == {"Enabled", "Disabled", "Uninstalled", "All"}
\* the states a package instance on a phone carries
ConcreteStates == {"Enabled", "Disabled", "Uninstalled"}
\* core::sync::Action
Actions == {"Misc", "RestoreDevice"}

PkgNames == {"com.foo", "com.bar"}
\* the user id of the i-th user of the phone (0 is the owner, then profiles)
UserIdOf(i) == 10 * (i - 1)
\* core::sync::User {id, index}: index is the 0-based position in user_list
UserAt(i) == [id |-> UserIdOf(i), index |-> i - 1]
UserList(n) == [i \in 1..n |-> UserAt(i)]

\* marks a command that carries no "--user <id>" argument
NoUser == 0 - 1

(* ------------------------------------------------------------------ *)
(* Sequence helpers                                                    *)
(* ------------------------------------------------------------------ *)
RECURSIVE Flatten(_)
\* concatenation of a sequence of sequences (Vec::extend in a loop, flat_map)
Flatten(ss) == IF ss = <<>> THEN <<>> ELSE Head(ss) \o Flatten(Tail(ss))

Range(s) == {s[i] : i \in 1..Len(s)}

(* ------------------------------------------------------------------ *)
(* The command builder                                                 *)
(* ------------------------------------------------------------------ *)
\* core::sync::request_builder: one command per verb, without a user when the
\* user list is empty, otherwise the whole verb sequence once per user.
request_builder(commands, package, users) ==
    IF users = <<>>
    THEN [i \in 1..Len(commands) |->
            [verb |-> commands[i], user |-> NoUser, package |-> package]]
    ELSE Flatten([u \in 1..Len(users) |->
            [i \in 1..Len(commands) |->
                [verb |-> commands[i], user |-> users[u].id, package |-> package]]])

\* save.rs 147-177 with the early return dropped: a bug to compare against
PkgStateVerbsNoEarlyReturn(backup_state, phone_state, sdk) ==
    CASE backup_state = "Enabled" ->
            LET commands ==
                    CASE phone_state = "Uninstalled" ->
                            <<"pm disable-user", "am force-stop", "pm clear">>
                      [] phone_state = "Disabled" -> <<"pm uninstall">>
                      [] OTHER -> <<>>
            IN  CASE sdk >= 23 -> commands
                  [] sdk \in {21, 22} -> <<"pm hide", "pm clear">>
                  [] sdk \in {19, 20} -> <<"pm block", "pm clear">>
                  [] OTHER -> <<"pm uninstall">>
      [] backup_state = "Uninstalled" ->
            CASE sdk >= 23 -> <<"cmd package install-existing">>
              [] sdk \in {21, 22} -> <<"pm unhide">>
              [] sdk \in {19, 20} -> <<"pm unblock", "pm clear">>
              [] OTHER -> <<>>
      [] backup_state = "Disabled" -> <<"pm enable">>
      [] OTHER -> <<>>

\* save.rs 143-177: the verbs chosen for one package, before the fan-out over
\* users. The match is keyed by backup_pkg.state; phone_pkg.state only picks
\* the inner list of the Enabled arm.
PkgStateVerbs(backup_state, phone_state, sdk) ==
    IF phone_state = backup_state
    THEN <<>>
    ELSE CASE backup_state = "Enabled" ->
                LET commands ==
                        CASE phone_state = "Uninstalled" ->
                                <<"pm disable-user", "am force-stop", "pm clear">>
                          [] phone_state = "Disabled" -> <<"pm uninstall">>
                          [] OTHER -> <<>>
                IN  CASE sdk >= 23 -> commands
                      [] sdk \in {21, 22} -> <<"pm hide", "pm clear">>
                      [] sdk \in {19, 20} -> <<"pm block", "pm clear">>
                      [] OTHER -> <<"pm uninstall">>
          [] backup_state = "Uninstalled" ->
                CASE sdk >= 23 -> <<"cmd package install-existing">>
                  [] sdk \in {21, 22} -> <<"pm unhide">>
                  [] sdk \in {19, 20} -> <<"pm unblock", "pm clear">>
                  [] OTHER -> <<>>
          [] backup_state = "Disabled" -> <<"pm enable">>
          [] OTHER -> <<>>

\* a bug to compare against: a restore that honours multi_user_mode
FanOutUsersRestoreHonoursMode(selected_user, phone, settings, action) ==
    IF phone.android_sdk < 21
    THEN <<>>
    ELSE IF settings.multi_user_mode THEN phone.user_list ELSE <<selected_user>>

\* a bug to compare against: the fan-out applied on every device
FanOutUsersEverySdk(selected_user, phone, settings, action) ==
    IF action = "Misc"
    THEN IF settings.multi_user_mode THEN phone.user_list ELSE <<selected_user>>
    ELSE phone.user_list

\* save.rs 179-192: the users handed to request_builder
FanOutUsers(selected_user, phone, settings, action) ==
    IF phone.android_sdk < 21
    THEN <<>>
    ELSE IF action = "Misc"
         THEN IF settings.multi_user_mode
              THEN phone.user_list
              ELSE <<selected_user>>
         ELSE phone.user_list

\* save.rs 134-193. The body names `package.name`; backup_pkg and phone_pkg
\* are the same package, so its name is taken from backup_pkg.
apply_pkg_state_commands(selected_user, backup_pkg, phone_pkg, phone, settings, action) ==
    request_builder(
        PkgStateVerbs(backup_pkg.state, phone_pkg.state, phone.android_sdk),
        backup_pkg.name,
        FanOutUsers(selected_user, phone, settings, action))

(* ------------------------------------------------------------------ *)
(* The snapshot file format (serde_json over PhoneBackup)              *)
(* ------------------------------------------------------------------ *)
\* A file's text is modelled as its JSON token sequence: punctuation, string
\* and number tokens (object keys are string tokens; commas and white space
\* are left out).
Punct(c) == [t |-> "punct", v |-> c]
Str(s) == [t |-> "str", v |-> s]
Num(n) == [t |-> "num", v |-> n]

\* Serialize for CorePackage {name, state}
SerPackage(p) ==
    <<Punct("{"), Str("name"), Str(p.name), Str("state"), Str(p.state), Punct("}")>>

\* Serialize for UserBackup {id, packages}
SerUserBackup(u) ==
    <<Punct("{"), Str("id"), Num(u.id), Str("packages"), Punct("[")>>
    \o Flatten([i \in 1..Len(u.packages) |-> SerPackage(u.packages[i])])
    \o <<Punct("]"), Punct("}")>>

\* serde_json::to_string_pretty(&backup) for PhoneBackup {device_id, users}
to_string_pretty(backup) ==
    <<Punct("{"), Str("device_id"), Str(backup.device_id), Str("users"), Punct("[")>>
    \o Flatten([i \in 1..Len(backup.users) |-> SerUserBackup(backup.users[i])])
    \o <<Punct("]"), Punct("}")>>

IsTok(toks, i, t, v) == i <= Len(toks) /\ toks[i].t = t /\ toks[i].v = v
HasTok(toks, i, t) == i <= Len(toks) /\ toks[i].t = t
ParseFail == [ok |-> FALSE, val |-> <<>>, next |-> 0]
ParseOk(val, next) == [ok |-> TRUE, val |-> val, next |-> next]

\* Deserialize for CorePackage: the state must name a PackageState variant
ParsePackage(toks, i) ==
    IF  /\ IsTok(toks, i, "punct", "{")
        /\ IsTok(toks, i + 1, "str", "name")
        /\ HasTok(toks, i + 2, "str")
        /\ IsTok(toks, i + 3, "str", "state")
        /\ HasTok(toks, i + 4, "str")
        /\ toks[i + 4].v \in PackageStates
        /\ IsTok(toks, i + 5, "punct", "}")
    THEN ParseOk([name |-> toks[i + 2].v, state |-> toks[i + 4].v], i + 6)
    ELSE ParseFail

RECURSIVE ParsePackages(_, _, _)
\* Deserialize for Vec<CorePackage>, from the token after "["
ParsePackages(toks, i, acc) ==
    IF i > Len(toks)
    THEN ParseFail
    ELSE IF IsTok(toks, i, "punct", "]")
         THEN ParseOk(acc, i + 1)
         ELSE LET p == ParsePackage(toks, i)
              IN  IF p.ok
                  THEN ParsePackages(toks, p.next, Append(acc, p.val))
                  ELSE ParseFail

\* Deserialize for UserBackup: the id must fit u16
ParseUserBackup(toks, i) ==
    IF  /\ IsTok(toks, i, "punct", "{")
        /\ IsTok(toks, i + 1, "str", "id")
        /\ HasTok(toks, i + 2, "num")
        /\ toks[i + 2].v \in 0..65535
        /\ IsTok(toks, i + 3, "str", "packages")
        /\ IsTok(toks, i + 4, "punct", "[")
    THEN LET ps == ParsePackages(toks, i + 5, <<>>)
         IN  IF ps.ok /\ IsTok(toks, ps.next, "punct", "}")
             THEN ParseOk([id |-> toks[i + 2].v, packages |-> ps.val], ps.next + 1)
             ELSE ParseFail
    ELSE ParseFail

RECURSIVE ParseUsers(_, _, _)
\* Deserialize for Vec<UserBackup>, from the token after "["
ParseUsers(toks, i, acc) ==
    IF i > Len(toks)
    THEN ParseFail
    ELSE IF IsTok(toks, i, "punct", "]")
         THEN ParseOk(acc, i + 1)
         ELSE LET u == ParseUserBackup(toks, i)
              IN  IF u.ok
                  THEN ParseUsers(toks, u.next, Append(acc, u.val))
                  ELSE ParseFail

\* serde_json::from_str::<PhoneBackup>(&data): ok is FALSE for a text that
\* does not match the schema
from_str(toks) ==
    IF  /\ IsTok(toks, 1, "punct", "{")
        /\ IsTok(toks, 2, "str", "device_id")
        /\ HasTok(toks, 3, "str")
        /\ IsTok(toks, 4, "str", "users")
        /\ IsTok(toks, 5, "punct", "[")
    THEN LET us == ParseUsers(toks, 6, <<>>)
         IN  IF us.ok /\ IsTok(toks, us.next, "punct", "}") /\ us.next = Len(toks)
             THEN ParseOk([device_id |-> toks[3].v, users |-> us.val], us.next + 1)
             ELSE ParseFail
    ELSE ParseFail

\* a text that is not a snapshot (a truncated file)
Malformed == <<Punct("{"), Str("device_id")>>

(* ------------------------------------------------------------------ *)
(* State                                                               *)
(* ------------------------------------------------------------------ *)
\* Settings::update(&mut self, phone, packages, msg): `phone` and `packages`
\* are handed in by the caller on every message. The phone's user list and
\* the live package listing persist between messages and are kept as state;
\* phone.android_sdk changes nothing that persists and is drawn where a
\* handler reads it.
VARIABLES
    user_list,  \* phone.user_list: Vec<User>
    packages,   \* the live listing: Vec<Vec<PackageRow>>, one row list per user index
    device,     \* Settings.device: DeviceSettings
    files,      \* BACKUP_DIR/<adb_id>/: file name (the minute stamp) -> file
    now,        \* chrono::Local::now(), in minutes
    inbox,      \* DeviceBackedUp messages of finished backup_phone futures, not yet
                \* delivered (the handler ignores the Result they carry)
    result      \* what the last handler call returned (NoResult after anything else)

vars == <<user_list, packages, device, files, now, inbox, result>>

\* phone.adb_id of the connected device
AdbId == "emulator-5554"

\* Option<T> is a sequence of length 0 (None) or 1 (Some)
Some(x) == <<x>>
\* slice::first().cloned()
First(s) == IF s = <<>> THEN <<>> ELSE <<s[1]>>

Absent == [exists |-> FALSE, data |-> <<>>]
File(data) == [exists |-> TRUE, data |-> data]
FileNames == 0..MaxMinute

PackageRow(name, state) == [name |-> name, state |-> state, selected |-> FALSE]

\* The listings one user of the phone can show: an empty one, and lists in
\* which com.foo takes every state and is missing.
UserListings ==
    << <<>>,
       <<PackageRow("com.foo", "Enabled"), PackageRow("com.bar", "Uninstalled")>>,
       <<PackageRow("com.foo", "Disabled")>>,
       <<PackageRow("com.foo", "Uninstalled"), PackageRow("com.bar", "Disabled")>> >>

\* the k-th listing of a phone of n users: the users' listings all differ
Listing(k, n) == [i \in 1..n |-> UserListings[((k + i - 1) % Len(UserListings)) + 1]]
Listings(n) == {Listing(k, n) : k \in 0..(Len(UserListings) - 1)}

NoResult == [kind |-> "none", outcome |-> "ok"]
Panic(kind, why) == [kind |-> kind, outcome |-> "panic", why |-> why]
\* a panic ends the process
Running == result.outcome # "panic"

(* ------------------------------------------------------------------ *)
(* core/save.rs                                                        *)
(* ------------------------------------------------------------------ *)
\* a bug to compare against: what the comment above backup_phone says
\* ("Backup all Uninstalled and Disabled packages")
CaptureUserOnlyChanged(u, phone_packages) ==
    LET rows == SelectSeq(phone_packages[u.index + 1], LAMBDA p : p.state # "Enabled")
    IN  [id |-> u.id,
         packages |-> [j \in 1..Len(rows) |-> [name |-> rows[j].name, state |-> rows[j].state]]]

\* save.rs 38-49: the UserBackup of one user
CaptureUser(u, phone_packages) ==
    LET rows == phone_packages[u.index + 1]
    IN  [id |-> u.id,
         packages |-> [j \in 1..Len(rows) |-> [name |-> rows[j].name, state |-> rows[j].state]]]

\* save.rs 32-50: the PhoneBackup built from the arguments
Capture(users, device_id, phone_packages) ==
    [device_id |-> device_id,
     users |-> [i \in 1..Len(users) |-> CaptureUser(users[i], phone_packages)]]

\* save.rs 61: the file name is the local time at minute granularity
backup_filename(t) == t

\* save.rs 27-73. io_ok: whether create_dir_all and fs::write succeed.
\* Returns the Result and the directory afterwards.
backup_phone(users, device_id, phone_packages, fs, t, io_ok) ==
    LET json == to_string_pretty(Capture(users, device_id, phone_packages))
    IN  IF io_ok
        THEN [res |-> "Ok", fs |-> [fs EXCEPT ![backup_filename(t)] = File(json)]]
        ELSE [res |-> "Err", fs |-> fs]

\* the permutations of a finite set, as sequences
Perms(S) == {s \in [1..Cardinality(S) -> S] : Range(s) = S}

\* save.rs 75-83: the entries of the directory, in the order read_dir gives
\* them (any order); empty when the directory cannot be read
list_available_backups(fs) == Perms({f \in DOMAIN fs : fs[f].exists})

\* save.rs 85-102
list_available_backup_user(fs, backup) ==
    IF ~fs[backup].exists
    THEN [tag |-> "Ok", users |-> <<>>, logged |-> TRUE]
    ELSE LET phone_backup == from_str(fs[backup].data)
         IN  IF ~phone_backup.ok
             THEN [tag |-> "Panic", users |-> <<>>, logged |-> FALSE]
             ELSE [tag |-> "Ok",
                   users |-> [i \in 1..Len(phone_backup.val.users) |->
                                [id |-> phone_backup.val.users[i].id, index |-> 0]],
                   logged |-> FALSE]

\* the row of `name` in a user's live listing, as an Option
FindPackage(rows, name) ==
    LET hits == SelectSeq(rows, LAMBDA r : r.name = name)
    IN  First(hits)

\* The live state the reconciler diffs against: the state the target user's
\* listing shows, Enabled when the listing does not hold the package.
LiveState(live, selected_user, name) ==
    LET hit == FindPackage(live[selected_user.index + 1], name)
    IN  IF hit = <<>> THEN "Enabled" ELSE hit[1].state

\* core::sync::change_pkg_state_commands as restore_backup calls it (save.rs
\* 119-125): the per-package step of the reconciler. It looks the package up
\* in the live listing of the target user and hands the pair to the builder.
change_pkg_state_commands(selected_user, package, phone, settings, action) ==
    apply_pkg_state_commands(
        selected_user,
        package,
        [name |-> package.name,
         state |-> LiveState(packages, selected_user, package.name)],
        phone, settings, action)

\* save.rs 116-127: the per-package command lists, in iteration order
RestoreParts(phone_backup, selected_device, settings) ==
    Flatten([i \in 1..Len(phone_backup.users) |->
        [j \in 1..Len(phone_backup.users[i].packages) |->
            change_pkg_state_commands(
                settings.backup.selected_user[1],
                phone_backup.users[i].packages[j],
                selected_device, settings, "RestoreDevice")]])

\* save.rs 107-132. tag is Ok (with the commands), Err (with the message) or
\* Panic (an unwrap of None, or the expect on a text that does not parse).
restore_backup(fs, selected_device, settings) ==
    IF settings.backup.selected = <<>>
    THEN [tag |-> "Panic", why |-> "no backup selected", commands |-> <<>>]
    ELSE LET f == fs[settings.backup.selected[1]]
         IN  IF ~f.exists
             THEN [tag |-> "Err", why |-> "[BACKUP]: file not found", commands |-> <<>>]
             ELSE LET phone_backup == from_str(f.data)
                  IN  IF ~phone_backup.ok
                      THEN [tag |-> "Panic", why |-> "Unable to parse backup file",
                            commands |-> <<>>]
                      ELSE IF /\ settings.backup.selected_user = <<>>
                              /\ \E i \in 1..Len(phone_backup.val.users) :
                                    phone_backup.val.users[i].packages # <<>>
                           THEN [tag |-> "Panic", why |-> "no user selected",
                                 commands |-> <<>>]
                           ELSE [tag |-> "Ok", why |-> "",
                                 commands |-> Flatten(RestoreParts(
                                     phone_backup.val, selected_device, settings))]

(* ------------------------------------------------------------------ *)
(* gui/views/settings.rs: Settings::update, one action per message     *)
(* ------------------------------------------------------------------ *)
\* DeviceSettings::default(), with either value of multi_user_mode
DefaultDevice(multi) ==
    [device_id |-> "",
     multi_user_mode |-> multi,
     backup |-> [backups |-> <<>>, selected |-> <<>>, users |-> <<>>,
                 selected_user |-> <<>>]]

\* settings.rs 84-115. multi_user_mode is `phone.android_sdk > 21` when the
\* configuration file does not know the device and what the file says (cfg)
\* when it does.
LoadDeviceSettings ==
    /\ Running
    /\ \E multi \in {sdk > 21 : sdk \in SdkLevels} \cup {cfg = "on" : cfg \in {"on", "off"}},
          backups \in list_available_backups(files) :
            device' = [device_id |-> AdbId,
                       multi_user_mode |-> multi,
                       backup |-> [backups |-> backups,
                                   selected |-> First(backups),
                                   users |-> user_list,
                                   selected_user |-> First(user_list)]]
    /\ result' = NoResult
    /\ UNCHANGED <<user_list, packages, files, now, inbox>>

\* settings.rs 68-73
MultiUserMode ==
    /\ Running
    /\ \E toggled \in BOOLEAN :
            /\ toggled # device.multi_user_mode
            /\ device' = [device EXCEPT !.multi_user_mode = toggled]
    /\ result' = NoResult
    /\ UNCHANGED <<user_list, packages, files, now, inbox>>

\* settings.rs 116-120: the path comes from the pick list of the known backups
BackupSelected ==
    /\ Running
    /\ \E path \in Range(device.backup.backups) :
            /\ device' = [device EXCEPT !.backup.selected = Some(path)]
            /\ result' =
                    IF list_available_backup_user(files, path).tag = "Panic"
                    THEN Panic("BackupSelected", "Unable to parse backup file")
                    ELSE [kind |-> "BackupSelected", outcome |-> "ok"]
    /\ UNCHANGED <<user_list, packages, files, now, inbox>>

\* settings.rs 135-138: the user comes from the pick list of the phone's users
BackupUserSelected ==
    /\ Running
    /\ \E user \in Range(device.backup.users) :
            device' = [device EXCEPT !.backup.selected_user = Some(user)]
    /\ result' = NoResult
    /\ UNCHANGED <<user_list, packages, files, now, inbox>>

\* settings.rs 121-128 and the future it starts (save.rs 27-73), run to its
\* end; its Result waits in the inbox as a DeviceBackedUp message. One backup
\* is in flight at a time, and only the loaded device's directory is modelled.
BackupDevice ==
    /\ Running
    /\ device.device_id = AdbId
    /\ inbox = <<>>
    /\ \E io_ok \in BOOLEAN :
            LET r == backup_phone(user_list, device.device_id, packages, files, now, io_ok)
            IN  /\ files' = r.fs
                /\ inbox' = Append(inbox, "DeviceBackedUp")
                /\ result' = [kind |-> "BackupDevice", outcome |-> "ok",
                              res |-> r.res, file |-> backup_filename(now)]
    /\ UNCHANGED <<user_list, packages, device, now>>

\* settings.rs 129-134
DeviceBackedUp ==
    /\ Running
    /\ inbox # <<>>
    /\ \E backups \in list_available_backups(files) :
            device' = [device EXCEPT !.backup.backups = backups,
                                     !.backup.selected = First(backups)]
    /\ inbox' = Tail(inbox)
    /\ result' = NoResult
    /\ UNCHANGED <<user_list, packages, files, now>>

\* settings.rs 139-154: both unwraps, and restore_backup between them. The
\* call site passes the selected path and user; restore_backup (save.rs
\* 107-110) takes the phone and the device settings and reads both from the
\* settings, which is what is modelled.
RestoreDevice ==
    /\ Running
    /\ \E sdk \in SdkLevels :
        LET phone == [android_sdk |-> sdk, user_list |-> user_list]
            actions == restore_backup(files, phone, device)
        IN  result' =
                IF device.backup.selected = <<>>
                THEN Panic("RestoreDevice", "no backup selected")
                ELSE IF actions.tag = "Panic"
                     THEN Panic("RestoreDevice", actions.why)
                     ELSE IF actions.tag = "Err"
                          THEN Panic("RestoreDevice", "unwrap of Err: " \o actions.why)
                          ELSE [kind |-> "RestoreDevice", outcome |-> "ok",
                                sdk |-> sdk, commands |-> actions.commands]
    /\ UNCHANGED <<user_list, packages, device, files, now, inbox>>

(* ------------------------------------------------------------------ *)
(* The environment                                                     *)
(* ------------------------------------------------------------------ *)
\* a minute passes
Tick ==
    /\ Running
    /\ now < MaxMinute
    /\ now' = now + 1
    /\ result' = NoResult
    /\ UNCHANGED <<user_list, packages, device, files, inbox>>

\* the phone's packages change (another view applies actions, apps come and go)
DeviceChanges ==
    /\ Running
    /\ \E l \in Listings(Len(user_list)) :
            /\ l # packages
            /\ packages' = l
    /\ result' = NoResult
    /\ UNCHANGED <<user_list, device, files, now, inbox>>

\* a snapshot file is deleted from outside
ExternalDelete ==
    /\ Running
    /\ \E f \in FileNames :
            /\ files[f].exists
            /\ files' = [files EXCEPT ![f] = Absent]
    /\ result' = NoResult
    /\ UNCHANGED <<user_list, packages, device, now, inbox>>

\* The state after Settings::default(), on a phone with 0..MaxUsers users. The
\* backup directory is empty or holds one file left by something else.
Init ==
    /\ \E n \in 0..MaxUsers :
            /\ user_list = UserList(n)
            /\ packages \in Listings(n)
    /\ \E multi \in BOOLEAN : device = DefaultDevice(multi)
    /\ \E old \in {Absent, File(Malformed)} :
            files = [f \in FileNames |-> IF f = 0 THEN old ELSE Absent]
    /\ now = 0
    /\ inbox = <<>>
    /\ result = NoResult

Next ==
    \/ LoadDeviceSettings
    \/ MultiUserMode
    \/ BackupSelected
    \/ BackupUserSelected
    \/ BackupDevice
    \/ DeviceBackedUp
    \/ RestoreDevice
    \/ Tick
    \/ DeviceChanges
    \/ ExternalDelete

Spec == Init /\ [][Next]_vars

(* ------------------------------------------------------------------ *)
(* The builder as a pure function: inputs drawn, then applied          *)
(* ------------------------------------------------------------------ *)
InitBuild ==
    /\ \E n \in 1..MaxUsers :
            /\ user_list = UserList(n)
            /\ packages = Listing(0, n)
    /\ \E multi \in BOOLEAN : device = DefaultDevice(multi)
    /\ files = [f \in FileNames |-> Absent]
    /\ now = 0
    /\ inbox = <<>>
    /\ result = NoResult

\* one call of apply_pkg_state_commands (save.rs 134-193)
BuildCommands ==
    \E sdk \in SdkLevels, backup_state \in PackageStates, phone_state \in PackageStates,
       action \in Actions, u \in 1..Len(user_list), name \in PkgNames :
        LET phone == [android_sdk |-> sdk, user_list |-> user_list]
        IN  /\ result' = [kind |-> "build", outcome |-> "ok",
                          sdk |-> sdk, current |-> phone_state, desired |-> backup_state,
                          action |-> action, selected_user |-> user_list[u],
                          name |-> name,
                          commands |-> apply_pkg_state_commands(
                                user_list[u],
                                [name |-> name, state |-> backup_state],
                                [name |-> name, state |-> phone_state],
                                phone, device, action)]
            /\ UNCHANGED <<user_list, packages, device, files, now, inbox>>

NextBuild == BuildCommands

SpecBuild == InitBuild /\ [][NextBuild]_vars

(* ------------------------------------------------------------------ *)
(* Properties                                                          *)
(* ------------------------------------------------------------------ *)
IsBuild == result.kind = "build"

\* the user ids the commands carry (NoUser for a command without one)
CommandUsers(commands) == {commands[i].user : i \in 1..Len(commands)}

\* the verbs of the commands issued for user uid, in order
VerbsFor(commands, uid) ==
    LET mine == SelectSeq(commands, LAMBDA c : c.user = uid)
    IN  [i \in 1..Len(mine) |-> mine[i].verb]

AllVerbs(commands) == {commands[i].verb : i \in 1..Len(commands)}

\* every user the commands are issued for gets exactly the sequence verbs
\* (nobody at all when verbs is empty)
PerUserSequenceIs(commands, verbs) ==
    IF verbs = <<>>
    THEN commands = <<>>
    ELSE /\ commands # <<>>
         /\ \A uid \in CommandUsers(commands) : VerbsFor(commands, uid) = verbs

\* the table of claim C1, by API tier
MoveAwayVerbs(sdk) ==
    CASE sdk >= 23 -> <<"pm disable-user", "am force-stop", "pm clear">>
      [] sdk \in {21, 22} -> <<"pm hide", "pm clear">>
      [] sdk \in {19, 20} -> <<"pm block", "pm clear">>
      [] OTHER -> <<"pm uninstall">>

\* the table of claim C2, by API tier
ReinstallVerbs(sdk) ==
    CASE sdk >= 23 -> <<"cmd package install-existing">>
      [] sdk \in {21, 22} -> <<"pm unhide">>
      [] sdk \in {19, 20} -> <<"pm unblock", "pm clear">>
      [] OTHER -> <<>>

\* C1: for a package that is Enabled on the phone and wanted Uninstalled, the
\* per-user command sequence is [disable-user, force-stop, clear] at API >= 23,
\* [hide, clear] at 21-22, [block, clear] at 19-20 and [uninstall] below 19.
C1_EnabledToUninstalled ==
    (IsBuild /\ result.current = "Enabled" /\ result.desired = "Uninstalled")
        => PerUserSequenceIs(result.commands, MoveAwayVerbs(result.sdk))

\* C2: for a package that is Uninstalled on the phone and wanted in another
\* concrete state, the per-user command sequence is the reinstall family
\* ([install-existing] / [unhide] / [unblock, clear] / nothing, by tier), and
\* none of disable-user, hide, block, uninstall is emitted.
C2_UninstalledToOther ==
    (IsBuild /\ result.current = "Uninstalled"
             /\ result.desired \in ConcreteStates \ {"Uninstalled"})
        => /\ PerUserSequenceIs(result.commands, ReinstallVerbs(result.sdk))
           /\ AllVerbs(result.commands)
                \cap {"pm disable-user", "pm hide", "pm block", "pm uninstall"} = {}

\* C3: building the transition from a state to the same state gives no
\* command, for every state (All included), API level, package, user list,
\* multi_user_mode and action.
C3_SameStateIsNoOp ==
    (IsBuild /\ result.current = result.desired) => result.commands = <<>>

\* C3 witness: a same-state call was made on a tier whose table is not empty
C3_Witness ==
    /\ IsBuild
    /\ result.current = "Enabled" /\ result.desired = "Enabled"
    /\ result.sdk \in {21, 22}
    /\ result.action = "RestoreDevice"

\* the user ids claim C4 names
ExpectedFanOut ==
    IF result.action = "Misc" /\ ~device.multi_user_mode
    THEN {result.selected_user.id}
    ELSE {user_list[i].id : i \in 1..Len(user_list)}

\* C4: at API >= 21 the commands are replicated across every known user for
\* a restore (whatever multi_user_mode is) and for an interactive action in
\* multi-user mode, and across the selected user alone for an interactive
\* action without it; every such user gets the same sequence.
C4_FanOutUsers ==
    (IsBuild /\ result.sdk >= 21 /\ result.commands # <<>>)
        => /\ CommandUsers(result.commands) = ExpectedFanOut
           /\ \A a, b \in CommandUsers(result.commands) :
                    VerbsFor(result.commands, a) = VerbsFor(result.commands, b)

\* C4 witness: a restore with multi_user_mode off, on a phone with several
\* users where the selected user is not the first, issued commands
C4_Witness ==
    /\ IsBuild
    /\ result.sdk >= 21
    /\ result.action = "RestoreDevice"
    /\ ~device.multi_user_mode
    /\ Len(user_list) >= 2
    /\ result.selected_user = user_list[2]
    /\ result.commands # <<>>

ListingTriples(users, phone_packages) ==
    UNION {{<<users[i].id, phone_packages[users[i].index + 1][j].name,
              phone_packages[users[i].index + 1][j].state>> :
                j \in 1..Len(phone_packages[users[i].index + 1])} :
            i \in 1..Len(users)}

\* the (user id, package name, state) triples of a snapshot
BackupTriples(phone_backup) ==
    UNION {{<<phone_backup.users[i].id, phone_backup.users[i].packages[j].name,
              phone_backup.users[i].packages[j].state>> :
                j \in 1..Len(phone_backup.users[i].packages)} :
            i \in 1..Len(phone_backup.users)}

BackupWritten == result.kind = "BackupDevice" /\ result.res = "Ok"

RestoreDone == result.kind = "RestoreDevice" /\ result.outcome = "ok"

\* the snapshot the selected backup file holds
SelectedSnapshot == from_str(files[device.backup.selected[1]].data).val

\* the records of a snapshot, in iteration order
SnapshotRecords(phone_backup) ==
    Flatten([i \in 1..Len(phone_backup.users) |-> phone_backup.users[i].packages])

\* whether the live listing of the target user lacks the package
AbsentFromLive(p) ==
    FindPackage(packages[device.backup.selected_user[1].index + 1], p.name) = <<>>

\* what claim C7 expects for one record of the snapshot: for a package the
\* target user's live listing lacks, nothing when Enabled is recorded and the
\* builder's sequence from Enabled otherwise; for a package it holds, the
\* builder's sequence from the state it shows.
ExpectedForRecord(p, sdk) ==
    LET sel == device.backup.selected_user[1]
        phone == [android_sdk |-> sdk, user_list |-> user_list]
        hit == FindPackage(packages[sel.index + 1], p.name)
    IN  IF hit = <<>>
        THEN IF p.state = "Enabled"
             THEN <<>>
             ELSE apply_pkg_state_commands(sel, p,
                    [name |-> p.name, state |-> "Enabled"],
                    phone, device, "RestoreDevice")
        ELSE apply_pkg_state_commands(sel, p,
                    [name |-> p.name, state |-> hit[1].state],
                    phone, device, "RestoreDevice")

C8_MalformedIsRecoverable ==
    (/\ result.kind \in {"BackupSelected", "RestoreDevice"}
     /\ device.backup.selected # <<>>
     /\ files[device.backup.selected[1]].exists
     /\ ~from_str(files[device.backup.selected[1]].data).ok)
        => result.outcome # "panic"

\* C9: a restore asked for while no backup is selected, while no user is
\* selected or while the selected file is missing returns a NotFound error
\* value; it does not panic.
C9_RestoreReturnsNotFound ==
    (/\ result.kind = "RestoreDevice"
     /\ \/ device.backup.selected = <<>>
        \/ device.backup.selected_user = <<>>
        \/ ~files[device.backup.selected[1]].exists)
        => /\ result.outcome = "err"
           /\ result.why = "NotFound"

\* the files of the directory that hold a snapshot
Snapshots(fs) == {f \in DOMAIN fs : fs[f].exists /\ from_str(fs[f].data).ok}

\* C10: a snapshot once written is never replaced (its file keeps its
\* content while it exists), and every successful backup adds a snapshot to
\* the directory.
C10_SnapshotsNeverReplaced ==
    [][/\ \A f \in Snapshots(files) :
            files'[f].exists => files'[f] = files[f]
       /\ (result'.kind = "BackupDevice" /\ result'.res = "Ok")
            => Cardinality(Snapshots(files')) > Cardinality(Snapshots(files))]_vars

\* the records a snapshot holds under user id uid, in iteration order
RecordsOfUser(phone_backup, uid) ==
    Flatten([i \in 1..Len(phone_backup.users) |->
                IF phone_backup.users[i].id = uid
                THEN phone_backup.users[i].packages
                ELSE <<>>])

\* C11: the restore plan for the target user is the concatenation, in
\* snapshot iteration order, of the per-package command sequences of exactly
\* the packages the snapshot records under the target user's id; records
\* under any other user id contribute no command.
C11_OnlyTargetUserRecords ==
    (RestoreDone /\ device.backup.selected_user # <<>>)
        => LET sel == device.backup.selected_user[1]
               recs == RecordsOfUser(SelectedSnapshot, sel.id)
           IN  result.commands =
                    Flatten([k \in 1..Len(recs) |->
                                ExpectedForRecord(recs[k], result.sdk)])

====
